---- MODULE Spec2Model ----
(***************************************************************************)
(* AML case processor: the rule engine of backend/app/patterns.py          *)
(* (run_patterns) and the scoring / driver / recommendation helpers of     *)
(* backend/app/jobs.py, as a state machine.                                *)
(*                                                                         *)
(* A transaction is a record of the raw fields the parser emits            *)
(* (Date, amount, Type, Details, direction), all strings; "" stands for    *)
(* any falsy raw value (None, "", 0), which the getters collapse with      *)
(* `or`.  Amounts are held in cents so that 9999.99 is exact.  `numeric`    *)
(* names the fields whose raw value is a number rather than a string (a    *)
(* numeric spreadsheet cell, parser.py 47-57); the field then holds the    *)
(* number's decimal text.                                                  *)
(*                                                                         *)
(* The getters of patterns.py are pure, so run_patterns' first step        *)
(* evaluates them once per transaction into `fields` (amount, date, type,  *)
(* details of each position) and the detector sections read that.          *)
(*                                                                         *)
(* The detectors compute on Python floats.  The model computes in cents    *)
(* and keeps the two places where binary64 rounding decides a comparison   *)
(* on a tie (LessThanPct, FloatSumLess).                                   *)
(***************************************************************************)
EXTENDS Integers, Sequences, FiniteSets, TLC

VARIABLES transactions, pc, fields, by_day, patterns, risk_score, risk_band,
          final_recommendation, case_summary, previous, job, client,
          llm_response, sar_text

vars == <<transactions, pc, fields, by_day, patterns, risk_score, risk_band,
          final_recommendation, case_summary, previous, job, client,
          llm_response, sar_text>>

(***************************************************************************)
(* Bounds of the model.                                                    *)
(***************************************************************************)
MaxTx == 3
MaxCodes == 3
MaxScore == 12

(***************************************************************************)
(* Python string primitives, computed character by character.              *)
(***************************************************************************)
\* Python: `k in d` for strings (substring test)
Contains(d, k) ==
    \E i \in 1..(Len(d) - Len(k) + 1) : SubSeq(d, i, i + Len(k) - 1) = k

\* Python: any(k in d for k in keywords)
ContainsAny(d, keywords) == \E k \in keywords : Contains(d, k)

LowerCh(c) ==
    CASE c = "A" -> "a" [] c = "B" -> "b" [] c = "C" -> "c" [] c = "D" -> "d"
      [] c = "E" -> "e" [] c = "F" -> "f" [] c = "G" -> "g" [] c = "H" -> "h"
      [] c = "I" -> "i" [] c = "J" -> "j" [] c = "K" -> "k" [] c = "L" -> "l"
      [] c = "M" -> "m" [] c = "N" -> "n" [] c = "O" -> "o" [] c = "P" -> "p"
      [] c = "Q" -> "q" [] c = "R" -> "r" [] c = "S" -> "s" [] c = "T" -> "t"
      [] c = "U" -> "u" [] c = "V" -> "v" [] c = "W" -> "w" [] c = "X" -> "x"
      [] c = "Y" -> "y" [] c = "Z" -> "z" [] OTHER -> c

\* Python: str.lower()
RECURSIVE Lower(_)
Lower(s) ==
    IF s = "" THEN ""
    ELSE LowerCh(SubSeq(s, 1, 1)) \o Lower(SubSeq(s, 2, Len(s)))

IsSpace(c) == c \in {" ", "\t", "\n", "\r"}

\* Python: str.strip()
RECURSIVE LStrip(_)
LStrip(s) ==
    IF s # "" /\ IsSpace(SubSeq(s, 1, 1)) THEN LStrip(SubSeq(s, 2, Len(s)))
    ELSE s

RECURSIVE RStrip(_)
RStrip(s) ==
    IF s # "" /\ IsSpace(SubSeq(s, Len(s), Len(s)))
    THEN RStrip(SubSeq(s, 1, Len(s) - 1))
    ELSE s

Strip(s) == RStrip(LStrip(s))

\* Python: str.replace(c, "") for a one-character c
RECURSIVE RemoveCh(_, _)
RemoveCh(s, c) ==
    IF s = "" THEN ""
    ELSE (IF SubSeq(s, 1, 1) = c THEN "" ELSE SubSeq(s, 1, 1))
         \o RemoveCh(SubSeq(s, 2, Len(s)), c)

IsDigit(c) == c \in {"0", "1", "2", "3", "4", "5", "6", "7", "8", "9"}

DigitVal(c) ==
    CASE c = "0" -> 0 [] c = "1" -> 1 [] c = "2" -> 2 [] c = "3" -> 3
      [] c = "4" -> 4 [] c = "5" -> 5 [] c = "6" -> 6 [] c = "7" -> 7
      [] c = "8" -> 8 [] c = "9" -> 9

AllDigits(s) == \A i \in 1..Len(s) : IsDigit(SubSeq(s, i, i))

\* value of a string of decimal digits ("" is 0)
RECURSIVE DigitsVal(_)
DigitsVal(s) ==
    IF s = "" THEN 0
    ELSE 10 * DigitsVal(SubSeq(s, 1, Len(s) - 1)) + DigitVal(SubSeq(s, Len(s), Len(s)))

\* position of the first "." of s, or 0
DotPos(s) ==
    IF Contains(s, ".")
    THEN CHOOSE i \in 1..Len(s) :
            /\ SubSeq(s, i, i) = "."
            /\ \A j \in 1..(i - 1) : SubSeq(s, j, j) # "."
    ELSE 0

(***************************************************************************)
(* Python float(s) on the decimal notations the inputs use: optional sign, *)
(* digits with an optional fraction.  <<>> is ValueError; <<c>> is the     *)
(* value in cents (input amounts carry at most two decimals).              *)
(***************************************************************************)
ParseFloat(s) ==
    LET signed == s # "" /\ SubSeq(s, 1, 1) \in {"-", "+"}
        neg    == s # "" /\ SubSeq(s, 1, 1) = "-"
        body   == IF signed THEN SubSeq(s, 2, Len(s)) ELSE s
        dot    == DotPos(body)
        ip     == IF dot = 0 THEN body ELSE SubSeq(body, 1, dot - 1)
        fp     == IF dot = 0 THEN "" ELSE SubSeq(body, dot + 1, Len(body))
        fp2    == SubSeq(fp \o "00", 1, 2)
        mag    == 100 * DigitsVal(ip) + DigitsVal(fp2)
    IN  IF AllDigits(ip) /\ AllDigits(fp) /\ (ip # "" \/ fp # "")
        THEN <<IF neg THEN 0 - mag ELSE mag>>
        ELSE <<>>

Dollars(n) == 100 * n

(***************************************************************************)
(* Calendar dates.  None is <<>>, a date is <<ordinal>> (the proleptic     *)
(* Gregorian ordinal of datetime.date).  The date parser is modelled on    *)
(* ISO "YYYY-MM-DD" strings; any other string is unparseable.              *)
(***************************************************************************)
None == <<>>

IsLeap(y) == (y % 4 = 0 /\ y % 100 # 0) \/ y % 400 = 0

DaysInMonth(y, m) ==
    CASE m \in {1, 3, 5, 7, 8, 10, 12} -> 31
      [] m \in {4, 6, 9, 11} -> 30
      [] OTHER -> IF IsLeap(y) THEN 29 ELSE 28

RECURSIVE DaysBeforeMonth(_, _)
DaysBeforeMonth(y, m) ==
    IF m = 1 THEN 0 ELSE DaysBeforeMonth(y, m - 1) + DaysInMonth(y, m - 1)

ToOrdinal(y, m, d) ==
    365 * (y - 1) + ((y - 1) \div 4) - ((y - 1) \div 100) + ((y - 1) \div 400)
    + DaysBeforeMonth(y, m) + d

\* dateutil.parser.parse(raw).date(), or None when it raises
parse_dt(raw) ==
    LET ys == SubSeq(raw, 1, 4)
        ms == SubSeq(raw, 6, 7)
        ds == SubSeq(raw, 9, 10)
    IN  IF /\ Len(raw) = 10
           /\ SubSeq(raw, 5, 5) = "-" /\ SubSeq(raw, 8, 8) = "-"
           /\ AllDigits(ys) /\ AllDigits(ms) /\ AllDigits(ds)
           /\ DigitsVal(ys) >= 1
           /\ DigitsVal(ms) \in 1..12
           /\ DigitsVal(ds) \in 1..DaysInMonth(DigitsVal(ys), DigitsVal(ms))
        THEN <<ToOrdinal(DigitsVal(ys), DigitsVal(ms), DigitsVal(ds))>>
        ELSE None

(***************************************************************************)
(* Field getters of patterns.py.                                           *)
(***************************************************************************)
\* variant: a failed conversion falls back to the digits of the raw text
_get_amount_KeepDigits(tx) ==
    LET raw      == tx.amount
        cleaned  == Strip(RemoveCh(RemoveCh(raw, "$"), ","))
        f        == ParseFloat(cleaned)
        IsDig(i) == IsDigit(SubSeq(raw, i, i))
        pos      == SelectSeq([i \in 1..Len(raw) |-> i], IsDig)
        RECURSIVE Val(_)
        Val(k)   == IF k = 0 THEN 0
                    ELSE 10 * Val(k - 1) + DigitVal(SubSeq(raw, pos[k], pos[k]))
    IN  IF f = <<>> THEN Dollars(Val(Len(pos))) ELSE f[1]

_get_amount(tx) ==
    LET raw     == tx.amount
        cleaned == Strip(RemoveCh(RemoveCh(raw, "$"), ","))
        f       == ParseFloat(cleaned)
    IN  IF f = <<>> THEN 0 ELSE f[1]

\* parse_dt of a number raises TypeError, which the getter turns into None
_get_date(tx) ==
    LET raw == tx.Date
    IN  IF raw = "" \/ "Date" \in tx.numeric THEN None ELSE parse_dt(raw)

_get_type(tx) == Lower(Strip(tx.Type))

_get_details(tx) == Lower(tx.Details)

\* a raw value that is a number other than 0: truthy, and not a string
TruthyNumber(tx, field, raw) ==
    field \in tx.numeric /\ ParseFloat(raw) \notin {<<>>, <<0>>}

\* (number).strip() and (number).lower() raise AttributeError
_get_type_raises(tx) == TruthyNumber(tx, "Type", tx.Type)

_get_details_raises(tx) == TruthyNumber(tx, "Details", tx.Details)

(***************************************************************************)
(* Thresholds of patterns.py (currency units).                             *)
(***************************************************************************)
STRUCTURING_THRESHOLD == 10000
STRUCTURING_FLOOR == 9900
CASH_WIRE_MIN == 5000
P2P_BURST_MIN_COUNT == 2
CRYPTO_MIN_OUTFLOW == 5000
ATM_STRUCT_MIN_AMOUNT == 8000
ATM_STRUCT_MAX_AMOUNT == 10000
ATM_STRUCT_MIN_COUNT == 3
INBOUND_SMURF_MIN_COUNT == 4
INBOUND_SMURF_MIN_SENDERS == 3
INBOUND_SMURF_MIN_TOTAL == 1500
INBOUND_SMURF_MAX_SINGLE == 1000

HIGH_RISK_KEYWORDS ==
    {"highriskcountry", "sanctionedcountry", "xyz", "countryx", "hong kong",
     "uae", "dubai", "china", "offshore", "foreign wire"}

(***************************************************************************)
(* Inputs.                                                                 *)
(***************************************************************************)
T(date, amount, type, details, direction) ==
    [Date |-> date, amount |-> amount, Type |-> type, Details |-> details,
     direction |-> direction, numeric |-> {}]

\* the record tx with the fields in cells read from numeric cells
Numeric(tx, cells) == [tx EXCEPT !.numeric = cells]

\* single records the short collections are drawn from
TxPool ==
    { T("2024-03-01", "9999.99", "cash", "cash deposit", "inbound"),
      T("2024-03-01", "9900.00", "cash", "cash deposit", "inbound"),
      T("2024-03-02", "10000.00", "Cash", "branch deposit", "inbound"),
      T("", "$9,950.00", " CASH ", "Cash Deposit", "unknown"),
      T("2024-03-01", "9950", "check", "check deposit", "inbound"),
      T("2024-03-01", "n/a", "cash", "cash deposit", "inbound"),
      T("2024-03-01", "6000", "wire", "wire to dubai", "outbound"),
      T("2024-03-03", "6000", "ach", "coinbase payout", "inbound"),
      T("2024-03-05", "7000", "wire", "Kraken payout", "inbound"),
      T("2024-03-01", "200", "cash", "misc", "inbound"),
      T("not a date", "300", "p2p", "multiple small transfers", "unknown") }

\* one collection on which all ten detectors fire; its sub-collections are
\* inputs too
FullCase ==
    << T("2024-03-01", "$9,950.00", "cash", "atm withdrawal cash", "outbound"),
       T("2024-03-01", "9000", "ATM", "atm withdrawal", "outbound"),
       T("2024-03-01", "8500", "atm", "ATM Withdrawal", "outbound"),
       T("2024-03-01", "12000", "wire", "incoming wire from dubai coinbase", "inbound"),
       T("2024-03-01", "400", "p2p", "incoming from alice", "inbound"),
       T("2024-03-01", "400", "p2p", "incoming from bob", "inbound"),
       T("2024-03-01", "400", "ach", "credit from carol", "inbound"),
       T("2024-03-01", "400", "p2p", "incoming from dave", "inbound") >>

\* the subsequence of s at the positions in keep, in order
RECURSIVE Pick(_, _, _)
Pick(s, keep, n) ==
    IF n = 0 THEN <<>>
    ELSE IF n \in keep THEN Append(Pick(s, keep, n - 1), s[n])
         ELSE Pick(s, keep, n - 1)

SeqsUpTo(S, n) == UNION { [1..k -> S] : k \in 0..n }

\* ATM withdrawals in the 8000..10000 band, on three different days
AtmPool ==
    { T("2024-03-01", "8500", "atm", "atm withdrawal", "outbound"),
      T("2024-03-02", "$9,000.00", "ATM", "ATM Withdrawal", "outbound"),
      T("2024-03-04", "9500", " atm ", "cash machine", "unknown") }

\* four inbound p2p credits of 400 on one day whose descriptions name the
\* sender only
PlainSenders ==
    << T("2024-03-01", "400", "p2p", "alice", "inbound"),
       T("2024-03-01", "400", "p2p", "bob", "inbound"),
       T("2024-03-01", "400", "p2p", "carol", "inbound"),
       T("2024-03-01", "400", "p2p", "dave", "inbound") >>

\* a cash deposit and a wire of one day, neither with a known direction
UnknownDirection ==
    << T("2024-03-01", "6000", "cash", "misc", "unknown"),
       T("2024-03-01", "6000", "wire", "misc", "unknown") >>

\* records with a number where a string is expected
NumericPool ==
    { Numeric(T("2024-03-01", "200", "cash", "12345", "inbound"), {"Details"}),
      Numeric(T("", "8500", "atm", "12345", "unknown"), {"Details"}),
      Numeric(T("", "200", "cash", "12345", "unknown"), {"Details"}),
      Numeric(T("", "6000", "wire", "12345", "unknown"), {"Details"}),
      Numeric(T("2024-03-01", "200", "7", "misc", "unknown"), {"Type"}),
      Numeric(T("20240301", "6000.0", "0", "0", "unknown"),
              {"Date", "amount", "Type", "Details"}),
      T("2024-03-01", "$9,950.00", "cash", "cash deposit", "inbound") }

NumericPairs == 2

\* amounts float() rejects, on records that would otherwise meet a threshold
BadAmounts ==
    << T("2024-03-01", "9950 USD", "cash", "cash deposit", "inbound"),
       T("2024-03-01", "6,000 USD", "wire", "coinbase transfer", "outbound"),
       T("2024-03-01", "n/a", "atm", "atm withdrawal", "outbound"),
       T("2024-03-01", "", "ach", "misc", "unknown"),
       T("2024-03-01", "7000", "wire", "incoming from exchange", "inbound") >>

\* records without a usable date beside one dated crypto payout
Undated ==
    << T("", "6000", "wire", "offshore wire", "outbound"),
       T("pending", "8500", "atm", "atm withdrawal", "outbound"),
       T("", "9000", "atm", "atm withdrawal", "outbound"),
       T("not a date", "9500", "atm", "atm withdrawal", "outbound"),
       T("2024-03-01", "7000", "ach", "coinbase payout", "inbound") >>

\* crypto-exchange records that are no transfers themselves, beside transfers
\* one, two and three days away from them (2024 is a leap year)
CryptoWindow ==
    << T("2024-03-03", "100", "cash", "Binance deposit", "inbound"),
       T("2024-03-01", "6000", "wire", "misc", "outbound"),
       T("2024-03-06", "5000", "wire", "misc", "outbound"),
       T("2024-02-28", "100", "card", "okx top-up", "inbound"),
       T("2024-03-03", "4999.99", "p2p", "misc", "outbound"),
       T("", "9000", "wire", "misc", "outbound") >>

\* deposits beside transfers of exactly 80% of them, one and two days away
ExactEighty ==
    << T("2024-03-01", "6250.05", "cash", "cash deposit", "inbound"),
       T("2024-03-02", "5000.04", "wire", "misc", "outbound"),
       T("2024-03-05", "10000", "check", "check deposit", "inbound"),
       T("2024-03-06", "8000.00", "p2p", "misc", "outbound"),
       T("2024-03-07", "9000", "p2p", "misc", "outbound") >>

\* four channels in eight days: payments that add up to exactly 6000.00 and
\* to 6000.30, with a deposit exactly 7 days and one 8 days after the first
LayeringEdge ==
    << T("2024-03-01", "2100.20", "wire", "wire to acme", "outbound"),
       T("2024-03-02", "2000.10", "p2p", "payment", "outbound"),
       T("2024-03-03", "1899.70", "card", "payment", "outbound"),
       T("2024-03-03", "1900", "card", "payment", "outbound"),
       T("2024-03-08", "100", "cash", "cash deposit", "inbound"),
       T("2024-03-09", "100", "check", "check deposit", "inbound") >>

\* credits from five senders within eight days and one transfer out
FunnelCase ==
    << T("2024-03-01", "2500", "p2p", "from alice", "inbound"),
       T("2024-03-02", "2500", "p2p", "from bob", "inbound"),
       T("2024-03-03", "2500", "ach", "credit from carol", "inbound"),
       T("2024-03-08", "2500", "wire", "incoming from dave", "inbound"),
       T("2024-03-05", "8000", "wire", "wire to offshore", "outbound"),
       T("2024-03-02", "30000", "wire", "incoming from erin", "inbound") >>

\* every sub-collection of s, order kept
SubCollections(s) == { Pick(s, keep, Len(s)) : keep \in SUBSET (1..Len(s)) }

Collections ==
    SeqsUpTo(TxPool, MaxTx)
    \cup { Pick(FullCase, keep, Len(FullCase)) : keep \in SUBSET (1..Len(FullCase)) }
    \cup SeqsUpTo(AtmPool, Cardinality(AtmPool))
    \cup SubCollections(PlainSenders)
    \cup SubCollections(UnknownDirection)
    \cup SeqsUpTo(NumericPool, NumericPairs)
    \cup SubCollections(BadAmounts)
    \cup SubCollections(Undated)
    \cup SubCollections(CryptoWindow)
    \cup SubCollections(ExactEighty)
    \cup SubCollections(LayeringEdge)
    \cup SubCollections(FunnelCase)

Indices(n) == [i \in 1..n |-> i]

Range(s) == { s[i] : i \in 1..Len(s) }

(***************************************************************************)
(* run_patterns, one step per section of the function.                     *)
(***************************************************************************)
Pattern(code, matches) == [code |-> code, matches |-> matches]

\* variant: the contribution is added once per recorded hit
Emit_PerHit(fired, code, matches, points) ==
    /\ patterns' = IF fired THEN Append(patterns, Pattern(code, matches)) ELSE patterns
    /\ risk_score' = IF fired THEN risk_score + points * Len(matches) ELSE risk_score

\* variant: a fired pattern is put at the front of the list
Emit_Prepend(fired, code, matches, points) ==
    /\ patterns' = IF fired THEN <<Pattern(code, matches)>> \o patterns ELSE patterns
    /\ risk_score' = IF fired THEN risk_score + points ELSE risk_score

\* patterns.append({...}); risk_score += points   -- when hits is non-empty
Emit(fired, code, matches, points) ==
    /\ patterns' = IF fired THEN Append(patterns, Pattern(code, matches)) ELSE patterns
    /\ risk_score' = IF fired THEN risk_score + points ELSE risk_score

\* the getters' values for one transaction
Fields(tx) ==
    [amount |-> _get_amount(tx), date |-> _get_date(tx),
     type |-> _get_type(tx), details |-> _get_details(tx),
     type_raises |-> _get_type_raises(tx),
     details_raises |-> _get_details_raises(tx)]

\* an exception leaves run_patterns: nothing is returned
Raise ==
    /\ pc' = "raised"
    /\ UNCHANGED <<patterns, risk_score>>

\* variant: a day's list grows at the front
RECURSIVE ByDayUpTo_Prepend(_, _)
ByDayUpTo_Prepend(txs, n) ==
    IF n = 0 THEN <<>>
    ELSE LET prev == ByDayUpTo_Prepend(txs, n - 1)
             d    == txs[n].date
         IN  IF d = None THEN prev
             ELSE IF \E k \in 1..Len(prev) : prev[k].day = d[1]
                  THEN [k \in 1..Len(prev) |->
                          IF prev[k].day = d[1]
                          THEN [prev[k] EXCEPT !.txs = <<n>> \o @]
                          ELSE prev[k]]
                  ELSE Append(prev, [day |-> d[1], txs |-> <<n>>])

\* by_day after the first n transactions: days in first-seen order, each
\* with the positions of its transactions in input order
RECURSIVE ByDayUpTo(_, _)
ByDayUpTo(txs, n) ==
    IF n = 0 THEN <<>>
    ELSE LET prev == ByDayUpTo(txs, n - 1)
             d    == txs[n].date
         IN  IF d = None THEN prev
             ELSE IF \E k \in 1..Len(prev) : prev[k].day = d[1]
                  THEN [k \in 1..Len(prev) |->
                          IF prev[k].day = d[1]
                          THEN [prev[k] EXCEPT !.txs = Append(@, n)]
                          ELSE prev[k]]
                  ELSE Append(prev, [day |-> d[1], txs |-> <<n>>])

GroupByDay ==
    /\ pc = "group"
    /\ fields' = [i \in 1..Len(transactions) |-> Fields(transactions[i])]
    /\ by_day' = ByDayUpTo(fields', Len(transactions))
    /\ patterns' = <<>>
    /\ risk_score' = 0
    /\ pc' = "structuring"
    /\ UNCHANGED <<llm_response, sar_text, job, client, previous, transactions, risk_band, final_recommendation, case_summary>>

\* variant: the upper threshold is inclusive
IsStructuringHit_Inclusive(tx) ==
    /\ tx.type = "cash"
    /\ Dollars(STRUCTURING_FLOOR) < tx.amount
    /\ tx.amount <= Dollars(STRUCTURING_THRESHOLD)

IsStructuringHit(tx) ==
    /\ tx.type = "cash"
    /\ Dollars(STRUCTURING_FLOOR) < tx.amount
    /\ tx.amount < Dollars(STRUCTURING_THRESHOLD)

structuring_hits(txs) ==
    LET Hit(i) == IsStructuringHit(txs[i])
    IN  SelectSeq(Indices(Len(txs)), Hit)

Structuring ==
    /\ pc = "structuring"
    /\ IF \E i \in 1..Len(fields) : fields[i].type_raises
       THEN Raise
       ELSE /\ LET hits == structuring_hits(fields)
               IN  Emit(hits # <<>>, "STRUCTURING_NEAR_THRESHOLD_CASH", hits, 3)
            /\ pc' = "cash_wire"
    /\ UNCHANGED <<llm_response, sar_text, job, client, previous, transactions, fields, by_day, risk_band, final_recommendation, case_summary>>

cash_wire_hits(txs, days) ==
    LET IsCash(i) == txs[i].type = "cash"
        IsWire(i) == txs[i].type = "wire" /\ txs[i].amount > Dollars(CASH_WIRE_MIN)
        Entry(k)  == [date |-> days[k].day,
                      cash_transactions |-> SelectSeq(days[k].txs, IsCash),
                      wire_transactions |-> SelectSeq(days[k].txs, IsWire)]
        Hit(k)    == Entry(k).cash_transactions # <<>> /\ Entry(k).wire_transactions # <<>>
        sel       == SelectSeq(Indices(Len(days)), Hit)
    IN  [j \in 1..Len(sel) |-> Entry(sel[j])]

CashToWire ==
    /\ pc = "cash_wire"
    /\ LET hits == cash_wire_hits(fields, by_day)
       IN  Emit(hits # <<>>, "RAPID_CASH_TO_WIRE", hits, 4)
    /\ pc' = "inbound_smurf"
    /\ UNCHANGED <<llm_response, sar_text, job, client, previous, transactions, fields, by_day, risk_band, final_recommendation, case_summary>>

\* sum(t.amount for t in ...) over a sequence of positions
RECURSIVE SumAmounts(_, _)
SumAmounts(txs, idx) ==
    IF idx = <<>> THEN 0
    ELSE txs[Head(idx)].amount + SumAmounts(txs, Tail(idx))

DetailsOf(txs, idx) == { txs[idx[j]].details : j \in 1..Len(idx) }

\* the inbound test of the smurfing and funneling sections
LooksInbound(details) ==
    Contains(details, "incoming") \/ Contains(details, "credit") \/ Contains(details, "from")

inbound_smurf_hits(txs, days) ==
    LET Eligible(i) ==
            /\ txs[i].type \in {"p2p", "ach", "wire"}
            /\ LooksInbound(txs[i].details)
            /\ ~(txs[i].amount >= Dollars(INBOUND_SMURF_MAX_SINGLE))
        eligible_inbounds(k) == SelectSeq(days[k].txs, Eligible)
        unique_senders(k)    == DetailsOf(txs, eligible_inbounds(k))
        total_amount(k)      == SumAmounts(txs, eligible_inbounds(k))
        Hit(k) ==
            /\ ~(Len(eligible_inbounds(k)) < INBOUND_SMURF_MIN_COUNT)
            /\ ~(Cardinality(unique_senders(k)) < INBOUND_SMURF_MIN_SENDERS)
            /\ ~(total_amount(k) < Dollars(INBOUND_SMURF_MIN_TOTAL))
        sel == SelectSeq(Indices(Len(days)), Hit)
    IN  [j \in 1..Len(sel) |->
            [date |-> days[sel[j]].day,
             transactions |-> eligible_inbounds(sel[j]),
             count |-> Len(eligible_inbounds(sel[j])),
             unique_senders |-> Cardinality(unique_senders(sel[j])),
             total_amount |-> total_amount(sel[j])]]

InboundSmurfing ==
    /\ pc = "inbound_smurf"
    /\ IF \E i \in 1..Len(fields) : fields[i].date # None /\ fields[i].details_raises
       THEN Raise
       ELSE /\ LET hits == inbound_smurf_hits(fields, by_day)
               IN  Emit(hits # <<>>, "INBOUND_SMURFING", hits, 4)
            /\ pc' = "p2p"
    /\ UNCHANGED <<llm_response, sar_text, job, client, previous, transactions, fields, by_day, risk_band, final_recommendation, case_summary>>

p2p_hits(txs, days) ==
    LET IsP2P(i)   == txs[i].type = "p2p"
        p2p_txs(k) == SelectSeq(days[k].txs, IsP2P)
        count(k)   == Len(p2p_txs(k))
        has_aggregated_row(k) ==
            \E j \in 1..count(k) :
                /\ Contains(txs[p2p_txs(k)[j]].details, "multiple")
                /\ Contains(txs[p2p_txs(k)[j]].details, "transfer")
        Hit(k) ==
            /\ p2p_txs(k) # <<>>
            /\ (count(k) >= P2P_BURST_MIN_COUNT \/ (count(k) = 1 /\ has_aggregated_row(k)))
        sel == SelectSeq(Indices(Len(days)), Hit)
    IN  [j \in 1..Len(sel) |->
            [date |-> days[sel[j]].day,
             p2p_count |-> count(sel[j]),
             transactions |-> p2p_txs(sel[j])]]

P2PBurst ==
    /\ pc = "p2p"
    /\ LET hits == p2p_hits(fields, by_day)
       IN  Emit(hits # <<>>, "P2P_MULTIPLE_TRANSFERS_SAME_DAY", hits, 3)
    /\ pc' = "crypto"
    /\ UNCHANGED <<llm_response, sar_text, job, client, previous, transactions, fields, by_day, risk_band, final_recommendation, case_summary>>

\* [(t, _get_date(t)) for t in transactions if _get_date(t)], as positions
dated_txs(txs) ==
    LET HasDate(i) == txs[i].date # None
    IN  SelectSeq(Indices(Len(txs)), HasDate)

DayOf(tx) == tx.date[1]

Abs(n) == IF n < 0 THEN 0 - n ELSE n

CRYPTO_KEYWORDS ==
    {"cryptoexchange", "crypto exchange", "crypto", "coinbase", "kraken",
     "binance", "kucoin", "okx", "crypto.com"}

CRYPTO_WINDOW_DAYS == 2

crypto_hits_OneDay(txs) ==
    LET dated == dated_txs(txs)
        IsDeposit(i) == ContainsAny(txs[i].details, CRYPTO_KEYWORDS)
        crypto_deposits == SelectSeq(dated, IsDeposit)
        related_outflows(c) ==
            LET Related(i) ==
                    /\ Abs(DayOf(txs[i]) - DayOf(txs[c])) <= 1
                    /\ txs[i].type \in {"wire", "p2p", "ach"}
                    /\ txs[i].amount >= Dollars(CRYPTO_MIN_OUTFLOW)
            IN  SelectSeq(dated, Related)
        Hit(c) == related_outflows(c) # <<>>
        sel == SelectSeq(crypto_deposits, Hit)
    IN  [j \in 1..Len(sel) |->
            [crypto_deposit |-> sel[j],
             related_outflows |-> related_outflows(sel[j]),
             deposit_date |-> DayOf(txs[sel[j]])]]

crypto_hits(txs) ==
    LET dated == dated_txs(txs)
        IsDeposit(i) == ContainsAny(txs[i].details, CRYPTO_KEYWORDS)
        crypto_deposits == SelectSeq(dated, IsDeposit)
        related_outflows(c) ==
            LET Related(i) ==
                    /\ Abs(DayOf(txs[i]) - DayOf(txs[c])) <= CRYPTO_WINDOW_DAYS
                    /\ txs[i].type \in {"wire", "p2p", "ach"}
                    /\ txs[i].amount >= Dollars(CRYPTO_MIN_OUTFLOW)
            IN  SelectSeq(dated, Related)
        Hit(c) == related_outflows(c) # <<>>
        sel == SelectSeq(crypto_deposits, Hit)
    IN  [j \in 1..Len(sel) |->
            [crypto_deposit |-> sel[j],
             related_outflows |-> related_outflows(sel[j]),
             deposit_date |-> DayOf(txs[sel[j]])]]

CryptoToBank ==
    /\ pc = "crypto"
    /\ LET hits == crypto_hits(fields)
       IN  Emit(hits # <<>>, "CRYPTO_TO_BANK_FLOW", hits, 7)
    /\ pc' = "high_risk"
    /\ UNCHANGED <<llm_response, sar_text, job, client, previous, transactions, fields, by_day, risk_band, final_recommendation, case_summary>>

high_risk_hits(txs) ==
    LET Hit(i) ==
            /\ txs[i].type = "wire"
            /\ ContainsAny(txs[i].details, HIGH_RISK_KEYWORDS)
    IN  SelectSeq(Indices(Len(txs)), Hit)

HighRiskWire ==
    /\ pc = "high_risk"
    /\ IF \E i \in 1..Len(fields) : fields[i].type = "wire" /\ fields[i].details_raises
       THEN Raise
       ELSE /\ LET hits == high_risk_hits(fields)
               IN  Emit(hits # <<>>, "HIGH_RISK_JURISDICTION_WIRE", hits, 7)
            /\ pc' = "atm"
    /\ UNCHANGED <<llm_response, sar_text, job, client, previous, transactions, fields, by_day, risk_band, final_recommendation, case_summary>>

\* variant: only the withdrawals of one day count together
atm_struct_hits_SameDay(txs) ==
    LET IsAtm(i) ==
            txs[i].type = "atm" \/ Contains(txs[i].details, "atm withdrawal")
        atm_txs == SelectSeq(Indices(Len(txs)), IsAtm)
        InBand(i) ==
            /\ Dollars(ATM_STRUCT_MIN_AMOUNT) <= txs[i].amount
            /\ txs[i].amount < Dollars(ATM_STRUCT_MAX_AMOUNT)
        hits == SelectSeq(atm_txs, InBand)
        SameDay(i) == txs[i].date = txs[hits[1]].date
    IN  SelectSeq(hits, SameDay)

atm_struct_hits(txs) ==
    LET IsAtm(i) ==
            txs[i].type = "atm" \/ Contains(txs[i].details, "atm withdrawal")
        atm_txs == SelectSeq(Indices(Len(txs)), IsAtm)
        InBand(i) ==
            /\ Dollars(ATM_STRUCT_MIN_AMOUNT) <= txs[i].amount
            /\ txs[i].amount < Dollars(ATM_STRUCT_MAX_AMOUNT)
    IN  SelectSeq(atm_txs, InBand)

AtmStructuring ==
    /\ pc = "atm"
    /\ IF \E i \in 1..Len(fields) : fields[i].type # "atm" /\ fields[i].details_raises
       THEN Raise
       ELSE /\ LET hits == atm_struct_hits(fields)
               IN  Emit(Len(hits) >= ATM_STRUCT_MIN_COUNT, "ATM_STRUCTURING_WITHDRAWALS", hits, 3)
            /\ pc' = "rapid_outflow"
    /\ UNCHANGED <<llm_response, sar_text, job, client, previous, transactions, fields, by_day, risk_band, final_recommendation, case_summary>>

RECURSIVE Flatten(_)
Flatten(ss) == IF ss = <<>> THEN <<>> ELSE Head(ss) \o Flatten(Tail(ss))

RAPID_MIN_AMOUNT == 5000
RAPID_WINDOW_DAYS == 1
RAPID_OUTFLOW_PCT == 80

\* `a < b * 0.80` on binary64 values (lines 374 and 539), a and b in cents.
\* Two different cent amounts are at least 0.002 apart after the scaling, far
\* more than the rounding error of the product, so off a tie the comparison is
\* the exact one.  On a tie (a is exactly 80% of b) a whole-dollar b gives the
\* exact product and the test is false; for a b with cents float(b) * 0.80 can
\* round above float(a), and the test is true.  FLOAT_PRODUCT_ROUNDS_UP holds
\* the amounts b of the model's inputs for which it does (6250.05 * 0.80 is
\* 5000.040000000001).
FLOAT_PRODUCT_ROUNDS_UP == { 625005 }

LessThanPct(a, b, pct) ==
    IF 100 * a = pct * b THEN b \in FLOAT_PRODUCT_ROUNDS_UP
    ELSE 100 * a < pct * b

rapid_outflow_hits(txs) ==
    LET dated == dated_txs(txs)
        InOK(i) ==
            /\ txs[i].type \in {"cash", "ach", "check"}
            /\ ~(txs[i].amount < Dollars(RAPID_MIN_AMOUNT))
        OutOK(i, o) ==
            /\ txs[o].type \in {"wire", "ach", "p2p"}
            /\ ~(txs[o].amount < Dollars(RAPID_MIN_AMOUNT))
            /\ ~(Abs(DayOf(txs[o]) - DayOf(txs[i])) > RAPID_WINDOW_DAYS)
            /\ ~LessThanPct(txs[o].amount, txs[i].amount, RAPID_OUTFLOW_PCT)
        ins == SelectSeq(dated, InOK)
        HitsOf(i) ==
            LET Ok(o) == OutOK(i, o)
                outs  == SelectSeq(dated, Ok)
            IN  [j \in 1..Len(outs) |->
                    [inbound |-> i, outbound |-> outs[j],
                     time_delta_days |-> DayOf(txs[outs[j]]) - DayOf(txs[i])]]
    IN  Flatten([k \in 1..Len(ins) |-> HitsOf(ins[k])])

RapidOutflow ==
    /\ pc = "rapid_outflow"
    /\ LET hits == rapid_outflow_hits(fields)
       IN  Emit(hits # <<>>, "RAPID_OUTFLOW", hits, 4)
    /\ pc' = "layering"
    /\ UNCHANGED <<llm_response, sar_text, job, client, previous, transactions, fields, by_day, risk_band, final_recommendation, case_summary>>

infer_direction_from_details(details) ==
    LET d == Lower(details)
        inbound_markers  == {"incoming", "from ", "credit", "deposit", "salary", "payroll"}
        outbound_markers == {"transfer to", "wire to", "withdrawal", "payment", "sent", "debit"}
    IN  IF ContainsAny(d, inbound_markers) THEN "inbound"
        ELSE IF ContainsAny(d, outbound_markers) THEN "outbound"
        ELSE "unknown"

SALARY_KEYWORDS == {"salary", "payroll"}
LAYERING_CRYPTO_KEYWORDS == {"crypto", "exchange", "binance", "coinbase", "kraken"}
SALARY_MAX == 5000
MIN_LARGE_TX == 6000
WINDOW_DAYS == 7
MIN_CHANNELS == 3
LAYERING_MIN_WINDOW == 4

\* positions of the dated transactions with start <= date <= start + WINDOW_DAYS
WindowFrom(txs, start) ==
    LET InWindow(i) ==
            DayOf(txs[start]) <= DayOf(txs[i])
            /\ DayOf(txs[i]) <= DayOf(txs[start]) + WINDOW_DAYS
    IN  SelectSeq(dated_txs(txs), InWindow)

AmountsOf(txs, idx) == [j \in 1..Len(idx) |-> txs[idx[j]].amount]

\* `total_movement < MIN_LARGE_TX` on a binary64 running sum (lines 437-451,
\* 456), amounts in cents.  Sums of cent amounts that differ in decimal differ
\* by at least 0.01, far more than the accumulated rounding error, so off a
\* tie the comparison is the exact one.  On a tie whole-dollar amounts add
\* exactly; amounts with cents can add up to just below the decimal sum
\* (0.0 + 2100.20 + 2000.10 + 1899.70 is 5999.999999999999).
\* FLOAT_SUM_ROUNDS_DOWN holds the amount lists of the model's inputs, in the
\* order they are added, for which they do.
FLOAT_SUM_ROUNDS_DOWN == { <<210020, 200010, 189970>> }

FloatSumLess(txs, idx, min) ==
    IF SumAmounts(txs, idx) = min THEN AmountsOf(txs, idx) \in FLOAT_SUM_ROUNDS_DOWN
    ELSE SumAmounts(txs, idx) < min

\* the qualifying windows, channels_used still a set
layering_windows(txs) ==
    LET dated == dated_txs(txs)
        window(a) == WindowFrom(txs, a)
        channels_used(a) == { txs[window(a)[j]].type : j \in 1..Len(window(a)) }
        Moves(i) ==
            \/ ContainsAny(txs[i].details, LAYERING_CRYPTO_KEYWORDS)
            \/ infer_direction_from_details(txs[i].details) = "outbound"
        moved(a) == SelectSeq(window(a), Moves)
        total_movement(a) == SumAmounts(txs, moved(a))
        Hit(a) ==
            /\ ~(/\ txs[a].amount <= Dollars(SALARY_MAX)
                 /\ ContainsAny(txs[a].details, SALARY_KEYWORDS))
            /\ ~(Len(window(a)) < LAYERING_MIN_WINDOW)
            /\ ~(Cardinality(channels_used(a)) < MIN_CHANNELS)
            /\ ~FloatSumLess(txs, moved(a), Dollars(MIN_LARGE_TX))
        sel == SelectSeq(dated, Hit)
    IN  [j \in 1..Len(sel) |->
            [window_start |-> DayOf(txs[sel[j]]),
             window_end |-> DayOf(txs[sel[j]]) + WINDOW_DAYS,
             channels_used |-> channels_used(sel[j]),
             channel_count |-> Cardinality(channels_used(sel[j])),
             total_movement |-> total_movement(sel[j]),
             transactions |-> window(sel[j])]]

\* the orders in which iterating a set of strings can yield its elements:
\* str hashes are salted per interpreter process, so any order is possible
HashOrders(S) == { f \in [1..Cardinality(S) -> S] : Range(f) = S }

\* list(channels_used): each window's set, iterated in the process's order
layering_hits(windows, order) ==
    LET AsList(S) == LET In(c) == c \in S IN SelectSeq(order, In)
    IN  [j \in 1..Len(windows) |->
            [windows[j] EXCEPT !.channels_used = AsList(@)]]

Layering ==
    /\ pc = "layering"
    /\ LET windows == layering_windows(fields)
           used    == UNION { windows[j].channels_used : j \in 1..Len(windows) }
       IN  \E hits \in { layering_hits(windows, order) : order \in HashOrders(used) } :
              Emit(hits # <<>>, "LAYERING_ACTIVITY", hits, 6)
    /\ pc' = "funneling"
    /\ UNCHANGED <<llm_response, sar_text, job, client, previous, transactions, fields, by_day, risk_band, final_recommendation, case_summary>>

MIN_INBOUND_TX == 4
MIN_TOTAL_INBOUND == 10000
CONSOLIDATION_PCT == 80

SetMax(S) == CHOOSE m \in S : \A x \in S : x <= m

\* the window anchored at position a: whether it qualifies, and its match
funneling_window(txs, a) ==
    LET IsInbound(i) ==
            /\ txs[i].type \in {"p2p", "ach", "wire"}
            /\ LooksInbound(txs[i].details)
        IsOutbound(i) ==
            /\ txs[i].type \in {"wire", "p2p"}
            /\ txs[i].amount > 0
        window   == WindowFrom(txs, a)
        inbound  == SelectSeq(window, IsInbound)
        outbound == SelectSeq(window, IsOutbound)
        inbound_senders == DetailsOf(txs, inbound)
        inbound_total   == SumAmounts(txs, inbound)
        \* outbound_destinations[details] += amount
        DestTotal(d) ==
            LET To(i) == txs[i].details = d
            IN  SumAmounts(txs, SelectSeq(outbound, To))
        max_single_destination ==
            SetMax({ DestTotal(d) : d \in DetailsOf(txs, outbound) })
    IN  [hit |->
            /\ ~(Len(inbound) < MIN_INBOUND_TX)
            /\ ~(inbound_total < Dollars(MIN_TOTAL_INBOUND))
            /\ ~(Cardinality(inbound_senders) < MIN_INBOUND_TX)
            /\ outbound # <<>>
            /\ ~LessThanPct(max_single_destination, inbound_total, CONSOLIDATION_PCT),
         match |->
            [window_start |-> DayOf(txs[a]),
             window_end |-> DayOf(txs[a]) + WINDOW_DAYS,
             inbound_count |-> Len(inbound),
             inbound_total |-> inbound_total,
             outbound_consolidated_amount |->
                 IF outbound = <<>> THEN 0 ELSE max_single_destination,
             inbound_transactions |-> inbound,
             outbound_transactions |-> outbound]]

funneling_hits(txs) ==
    LET dated == dated_txs(txs)
        windows == [j \in 1..Len(dated) |-> funneling_window(txs, dated[j])]
        Hit(w) == w.hit
        sel == SelectSeq(windows, Hit)
    IN  [j \in 1..Len(sel) |-> sel[j].match]

Funneling ==
    /\ pc = "funneling"
    /\ LET hits == funneling_hits(fields)
       IN  Emit(hits # <<>>, "FUNNELING_ACTIVITY", hits, 5)
    /\ pc' = "clamp"
    /\ UNCHANGED <<llm_response, sar_text, job, client, previous, transactions, fields, by_day, risk_band, final_recommendation, case_summary>>

SCORE_MIN == 1
SCORE_MAX == 10

\* variant: only the lower clamp
ClampScore_NoUpper(score) ==
    IF score <= 0 THEN SCORE_MIN ELSE score

\* variant: only the upper clamp
ClampScore_NoLower(score) ==
    IF score > SCORE_MAX THEN SCORE_MAX ELSE score

\* the clamp at the end of run_patterns
ClampScore(score) ==
    IF score <= 0 THEN SCORE_MIN
    ELSE IF score > SCORE_MAX THEN SCORE_MAX
    ELSE score

Clamp ==
    /\ pc = "clamp"
    /\ risk_score' = ClampScore(risk_score)
    /\ pc' = "band"
    /\ UNCHANGED <<llm_response, sar_text, job, client, previous, transactions, fields, by_day, patterns, risk_band, final_recommendation, case_summary>>

(***************************************************************************)
(* jobs.py: band, recommendation, driver and supporting indicators.        *)
(***************************************************************************)
HIGH_RISK_PATTERNS ==
    {"STRUCTURING_NEAR_THRESHOLD_CASH", "ATM_STRUCTURING_WITHDRAWALS",
     "INBOUND_SMURFING", "SMURFING_P2P_INBOUND",
     "P2P_MULTIPLE_TRANSFERS_SAME_DAY", "CRYPTO_TO_BANK_FLOW", "RAPID_OUTFLOW",
     "RAPID_CASH_TO_WIRE", "HIGH_RISK_JURISDICTION_WIRE"}

SAR_DRIVER_PRIORITY ==
    <<"FUNNELING_ACTIVITY", "LAYERING_ACTIVITY", "INBOUND_SMURFING",
      "CRYPTO_TO_BANK_FLOW", "RAPID_OUTFLOW", "RAPID_CASH_TO_WIRE",
      "STRUCTURING_NEAR_THRESHOLD_CASH", "ATM_STRUCTURING_WITHDRAWALS",
      "P2P_MULTIPLE_TRANSFERS_SAME_DAY">>

\* SUPPORTING_INDICATORS_BY_DRIVER.get(main_driver, [])
SUPPORTING_INDICATORS_BY_DRIVER(main_driver) ==
    CASE main_driver = <<"LAYERING_ACTIVITY">> ->
            <<"RAPID_OUTFLOW", "MULTIPLE_TRANSACTION_CHANNELS",
              "RAPID_SEQUENCE_OF_TRANSFERS">>
      [] main_driver = <<"FUNNELING_ACTIVITY">> ->
            <<"MULTIPLE_INBOUND_SOURCES", "AGGREGATION_OF_FUNDS",
              "SINGLE_EXIT_DESTINATION">>
      [] main_driver = <<"INBOUND_SMURFING">> ->
            <<"MULTIPLE_SMALL_INBOUND_TRANSFERS", "DISTINCT_SENDERS">>
      [] OTHER -> <<>>

\* [p["code"] for p in patterns]
Codes(ps) == [i \in 1..Len(ps) |-> ps[i].code]

\* code point order of the characters that occur in codes
CharOrder == "0123456789ABCDEFGHIJKLMNOPQRSTUVWXYZ_abcdefghijklmnopqrstuvwxyz"

CharRank(c) == CHOOSE i \in 1..Len(CharOrder) : SubSeq(CharOrder, i, i) = c

\* Python: a < b for strings
RECURSIVE StrLess(_, _)
StrLess(a, b) ==
    IF b = "" THEN FALSE
    ELSE IF a = "" THEN TRUE
    ELSE IF SubSeq(a, 1, 1) = SubSeq(b, 1, 1)
         THEN StrLess(SubSeq(a, 2, Len(a)), SubSeq(b, 2, Len(b)))
         ELSE CharRank(SubSeq(a, 1, 1)) < CharRank(SubSeq(b, 1, 1))

\* Python: sorted(S) for a set of strings
RECURSIVE sorted(_)
sorted(S) ==
    IF S = {} THEN <<>>
    ELSE LET m == CHOOSE x \in S : \A y \in S \ {x} : StrLess(x, y)
         IN  <<m>> \o sorted(S \ {m})

\* variant: merged without set(), so a code both fired and inferred repeats
compute_supporting_indicators_NoDedupe(ps, main_driver) ==
    LET pattern_codes == Range(Codes(ps))
        supporting    == { code \in pattern_codes : <<code>> # main_driver }
        inferred      == SUPPORTING_INDICATORS_BY_DRIVER(main_driver)
    IN  sorted(supporting) \o inferred

compute_supporting_indicators(ps, main_driver) ==
    LET pattern_codes == Range(Codes(ps))
        supporting    == { code \in pattern_codes : <<code>> # main_driver }
        inferred      == SUPPORTING_INDICATORS_BY_DRIVER(main_driver)
    IN  sorted(supporting \cup Range(inferred))

\* variant: scans the patterns list and returns its first code that is a driver
compute_main_sar_driver_ListOrder(ps) ==
    LET codes == Codes(ps)
        hits  == { i \in 1..Len(codes) : codes[i] \in Range(SAR_DRIVER_PRIORITY) }
    IN  IF hits = {} THEN None
        ELSE <<codes[CHOOSE i \in hits : \A j \in hits : i <= j]>>

\* variant: falls back to the lowest-priority driver instead of None
compute_main_sar_driver_Default(ps) ==
    LET pattern_codes == Range(Codes(ps))
        present == { k \in 1..Len(SAR_DRIVER_PRIORITY) :
                        SAR_DRIVER_PRIORITY[k] \in pattern_codes }
    IN  IF present = {} THEN <<SAR_DRIVER_PRIORITY[Len(SAR_DRIVER_PRIORITY)]>>
        ELSE <<SAR_DRIVER_PRIORITY[CHOOSE k \in present : \A j \in present : k <= j]>>

compute_main_sar_driver(ps) ==
    LET pattern_codes == Range(Codes(ps))
        present == { k \in 1..Len(SAR_DRIVER_PRIORITY) :
                        SAR_DRIVER_PRIORITY[k] \in pattern_codes }
    IN  IF present = {} THEN None
        ELSE <<SAR_DRIVER_PRIORITY[CHOOSE k \in present : \A j \in present : k <= j]>>

compute_case_summary(ps, band, recommendation) ==
    LET main_driver == compute_main_sar_driver(ps)
        supporting  == compute_supporting_indicators(ps, main_driver)
    IN  [risk_band |-> band,
         main_driver |-> main_driver,
         supporting_indicators |-> supporting,
         recommendation |-> recommendation]

\* variant: the score test alone decides
should_recommend_no_sar_ScoreOnly(ps, score) ==
    IF score > 2 THEN FALSE ELSE TRUE

\* variant: any score below the High band counts as low
should_recommend_no_sar_BelowHigh(ps, score) ==
    LET pattern_codes == Range(Codes(ps))
    IN  IF pattern_codes \cap HIGH_RISK_PATTERNS # {} THEN FALSE
        ELSE IF score > 6 THEN FALSE
        ELSE TRUE

should_recommend_no_sar(ps, score) ==
    LET pattern_codes == Range(Codes(ps))
    IN  IF pattern_codes \cap HIGH_RISK_PATTERNS # {} THEN FALSE
        ELSE IF score > 2 THEN FALSE
        ELSE TRUE

\* variant: the Medium band ends one early
compute_risk_band_Off(score) ==
    IF score <= 2 THEN "Low"
    ELSE IF score < 6 THEN "Medium"
    ELSE "High"

compute_risk_band(score) ==
    IF score <= 2 THEN "Low"
    ELSE IF score <= 6 THEN "Medium"
    ELSE "High"

\* variant: SAR only above 7
compute_final_recommendation_Strict(ps, score) ==
    IF should_recommend_no_sar(ps, score) THEN "No SAR"
    ELSE IF score > 7 THEN "SAR"
    ELSE "Review"

compute_final_recommendation(ps, score) ==
    IF should_recommend_no_sar(ps, score) THEN "No SAR"
    ELSE IF score >= 7 THEN "SAR"
    ELSE "Review"

\* tests/test_runner.py: the band helper of the test runner
runner_compute_risk_band(score) ==
    IF score <= 2 THEN "Low"
    ELSE IF score <= 6 THEN "Medium"
    ELSE "High"

\* step 3 of process_uploaded_file
ComputeRiskBand ==
    /\ pc = "band"
    /\ risk_band' = compute_risk_band(risk_score)
    /\ pc' = "recommend"
    /\ UNCHANGED <<llm_response, sar_text, job, client, previous, transactions, fields, by_day, patterns, risk_score, final_recommendation, case_summary>>

ComputeFinalRecommendation ==
    /\ pc = "recommend"
    /\ final_recommendation' = compute_final_recommendation(patterns, risk_score)
    /\ pc' = "summary"
    /\ UNCHANGED <<llm_response, sar_text, job, client, previous, transactions, fields, by_day, patterns, risk_score, risk_band, case_summary>>

ComputeCaseSummary ==
    /\ pc = "summary"
    /\ case_summary' = compute_case_summary(patterns, risk_band, final_recommendation)
    /\ pc' = "done"
    /\ UNCHANGED <<llm_response, sar_text, job, client, previous, transactions, fields, by_day, patterns, risk_score, risk_band, final_recommendation>>

NoSummary ==
    [risk_band |-> "", main_driver |-> None, supporting_indicators |-> <<>>,
     recommendation |-> ""]

\* JOB_STORE[job_id] right after upload, and a client that has not polled yet
NoJob == [status |-> "queued", result |-> None, pdf |-> None, audio |-> None]

NoClient == [pc |-> "poll", status |-> "", result |-> None]

(***************************************************************************)
(* Spec: the engine on a transaction collection, then the job's scoring.   *)
(***************************************************************************)
Init ==
    /\ transactions \in Collections
    /\ previous = None
    /\ job = NoJob
    /\ client = NoClient
    /\ llm_response = ""
    /\ sar_text = None
    /\ pc = "group"
    /\ fields = <<>>
    /\ by_day = <<>>
    /\ patterns = <<>>
    /\ risk_score = 0
    /\ risk_band = ""
    /\ final_recommendation = ""
    /\ case_summary = NoSummary

Next ==
    \/ GroupByDay
    \/ Structuring
    \/ CashToWire
    \/ InboundSmurfing
    \/ P2PBurst
    \/ CryptoToBank
    \/ HighRiskWire
    \/ AtmStructuring
    \/ RapidOutflow
    \/ Layering
    \/ Funneling
    \/ Clamp
    \/ ComputeRiskBand
    \/ ComputeFinalRecommendation
    \/ ComputeCaseSummary

Spec == Init /\ [][Next]_vars

(***************************************************************************)
(* SpecJobs: the helpers of jobs.py on any (patterns, score) pair.         *)
(***************************************************************************)
JobCodes ==
    Range(SAR_DRIVER_PRIORITY) \cup HIGH_RISK_PATTERNS

\* lists of up to MaxCodes patterns in any order; a run appends each code at
\* most once, so no code repeats
PatternLists ==
    { ps \in UNION { [1..k -> { Pattern(c, <<>>) : c \in JobCodes }] : k \in 0..MaxCodes } :
        \A i, j \in 1..Len(ps) : i # j => ps[i].code # ps[j].code }

InitJobs ==
    /\ transactions = <<>>
    /\ previous = None
    /\ job = NoJob
    /\ client = NoClient
    /\ llm_response = ""
    /\ sar_text = None
    /\ pc = "band"
    /\ fields = <<>>
    /\ by_day = <<>>
    /\ patterns \in PatternLists
    /\ risk_score \in (0 - 1)..MaxScore
    /\ risk_band = ""
    /\ final_recommendation = ""
    /\ case_summary = NoSummary

NextJobs ==
    \/ ComputeRiskBand
    \/ ComputeFinalRecommendation
    \/ ComputeCaseSummary

SpecJobs == InitJobs /\ [][NextJobs]_vars

(***************************************************************************)
(* SpecTwice: the same collection is processed a second time (the file is  *)
(* uploaded again, possibly to a restarted server process).                *)
(***************************************************************************)
Result ==
    [patterns |-> patterns, risk_score |-> risk_score, risk_band |-> risk_band,
     final_recommendation |-> final_recommendation, case_summary |-> case_summary,
     sar_text |-> sar_text]

RunAgain ==
    /\ pc = "done"
    /\ previous = None
    /\ previous' = <<Result>>
    /\ pc' = "group"
    /\ fields' = <<>>
    /\ by_day' = <<>>
    /\ patterns' = <<>>
    /\ risk_score' = 0
    /\ risk_band' = ""
    /\ final_recommendation' = ""
    /\ case_summary' = NoSummary
    /\ UNCHANGED <<llm_response, sar_text, job, client, transactions>>

\* the first five records of FullCase: cash, two ATM, a wire and a p2p credit
TwiceCase == SubSeq(FullCase, 1, 5)

TwiceCollections ==
    SeqsUpTo(TxPool, MaxTx - 1) \cup SubCollections(TwiceCase)

InitTwice ==
    /\ transactions \in TwiceCollections
    /\ previous = None
    /\ job = NoJob
    /\ client = NoClient
    /\ llm_response = ""
    /\ sar_text = None
    /\ pc = "group"
    /\ fields = <<>>
    /\ by_day = <<>>
    /\ patterns = <<>>
    /\ risk_score = 0
    /\ risk_band = ""
    /\ final_recommendation = ""
    /\ case_summary = NoSummary

NextTwice ==
    \/ Next
    \/ RunAgain

SpecTwice == InitTwice /\ [][NextTwice]_vars

(***************************************************************************)
(* SpecPoll: process_uploaded_file as the background worker of one job,    *)
(* with a client of the HTTP API (tests/test_runner.py) polling            *)
(* /api/status and then fetching /api/result.  The worker and the request  *)
(* handlers run on different threads; each write to JOB_STORE is a step.   *)
(***************************************************************************)
EngineVars ==
    <<transactions, fields, by_day, patterns, risk_score, risk_band,
      final_recommendation, case_summary, previous>>

LlmVars == <<llm_response, sar_text>>

\* line 131
JobParsing ==
    /\ pc = "queued"
    /\ job' = [job EXCEPT !.status = "parsing"]
    /\ pc' = "parsing"
    /\ UNCHANGED <<EngineVars, LlmVars, client>>

\* lines 138-147: the file is read, then status "enriching"
JobEnriching ==
    /\ pc = "parsing"
    /\ job' = [job EXCEPT !.status = "enriching"]
    /\ pc' = "enriching"
    /\ UNCHANGED <<EngineVars, LlmVars, client>>

\* lines 148-154: status "rules"; run_patterns and the scoring helpers follow
JobRules ==
    /\ pc = "enriching"
    /\ job' = [job EXCEPT !.status = "rules"]
    /\ pc' = "group"
    /\ UNCHANGED <<EngineVars, LlmVars, client>>

\* line 171
JobLlm ==
    /\ pc = "done"
    /\ job' = [job EXCEPT !.status = "llm"]
    /\ pc' = "llm"
    /\ UNCHANGED <<EngineVars, LlmVars, client>>

\* What requests.post can bring back to generate_sar (llm_client.py 209-217),
\* and "no_key" for an empty OPENROUTER_API_KEY (line 185).
LlmResponses ==
    {"no_key", "timeout", "connection_error", "http_error", "not_json",
     "missing_keys", "ok"}

RECOMMENDED == "a Suspicious Activity Report is recommended."
NOT_RECOMMENDED == "a Suspicious Activity Report is not recommended."

\* llm_client.py 106-176: the template's content that depends on the case is
\* the list of codes of section 3 and the final sentence of section 5
_fallback_sar(ps, band) ==
    LET pattern_codes == Codes(ps)
        lowered       == Lower(band)
    IN  [source |-> "fallback",
         codes  |-> pattern_codes,
         final  |-> IF pattern_codes # <<>> /\ lowered \in {"high", "medium"}
                    THEN RECOMMENDED ELSE NOT_RECOMMENDED]

\* the text an answering model wrote: the prompt asks for one of the two
\* final sentences
LlmTexts ==
    { [source |-> "llm", codes |-> <<>>, final |-> f] :
        f \in {RECOMMENDED, NOT_RECOMMENDED} }

Raised == [source |-> "raised", codes |-> <<>>, final |-> ""]

\* llm_client.py 179-225: the outcomes of generate_sar for one response.
\* Only requests.Timeout and requests.RequestException are caught.  A body
\* that is not JSON makes resp.json() raise requests' JSONDecodeError, a
\* RequestException from requests 2.27 on and a plain ValueError before; the
\* repository pins no version, so both outcomes are kept.  A JSON body without
\* choices / message / content raises KeyError, IndexError or TypeError at
\* line 218, which no handler of generate_sar catches.
generate_sar(response, ps, band) ==
    CASE response \in {"no_key", "timeout", "connection_error", "http_error"} ->
            { _fallback_sar(ps, band) }
      [] response = "not_json"     -> { _fallback_sar(ps, band), Raised }
      [] response = "missing_keys" -> { Raised }
      [] response = "ok"           -> LlmTexts

\* jobs.py 173-178
GenerateSar ==
    /\ pc = "llm"
    /\ \E response \in LlmResponses :
         /\ llm_response' = response
         /\ \E outcome \in generate_sar(response, patterns, risk_band) :
               IF outcome = Raised
               THEN sar_text' = None /\ pc' = "llm_raised"
               ELSE sar_text' = <<outcome>> /\ pc' = "narrated"
    /\ UNCHANGED <<EngineVars, job, client>>

\* lines 183-184
JobPdf ==
    /\ pc = "narrated"
    /\ job' = [job EXCEPT !.status = "pdf"]
    /\ pc' = "pdf"
    /\ UNCHANGED <<EngineVars, LlmVars, client>>

\* lines 185-190
JobAudio ==
    /\ pc = "pdf"
    /\ job' = [job EXCEPT !.status = "audio"]
    /\ pc' = "audio"
    /\ UNCHANGED <<EngineVars, LlmVars, client>>

\* lines 201-206: the status is set before the result is stored
JobDone ==
    /\ pc = "audio"
    /\ job' = [job EXCEPT !.status = "done"]
    /\ pc' = "store"
    /\ UNCHANGED <<EngineVars, LlmVars, client>>

\* lines 207-216
JobStoreResult ==
    /\ pc = "store"
    /\ job' = [job EXCEPT !.result = <<Result>>]
    /\ pc' = "files"
    /\ UNCHANGED <<EngineVars, LlmVars, client>>

\* lines 217-218
JobStoreFiles ==
    /\ pc = "files"
    /\ job' = [job EXCEPT !.pdf = <<"pdf_path">>, !.audio = <<"audio_path">>]
    /\ pc' = "finished"
    /\ UNCHANGED <<EngineVars, LlmVars, client>>

\* variant: storing the result can raise as well
JobError_AfterDone ==
    /\ pc \in {"parsing", "enriching", "raised", "llm_raised", "pdf", "audio",
               "store"}
    /\ job' = [job EXCEPT !.status = "error"]
    /\ pc' = "failed"
    /\ UNCHANGED <<EngineVars, LlmVars, client>>

\* except Exception: a stage that reads the file, calls a service or runs the
\* rules raised
JobError ==
    /\ pc \in {"parsing", "enriching", "raised", "llm_raised", "pdf", "audio"}
    /\ job' = [job EXCEPT !.status = "error"]
    /\ pc' = "failed"
    /\ UNCHANGED <<EngineVars, LlmVars, client>>

\* GET /api/status/{job_id}, as wait_for_status polls it
ClientPoll ==
    /\ client.pc = "poll"
    /\ client' = [client EXCEPT
                     !.status = job.status,
                     !.pc = IF job.status = "done" THEN "fetch"
                            ELSE IF job.status = "error" THEN "end"
                            ELSE "poll"]
    /\ UNCHANGED <<EngineVars, LlmVars, pc, job>>

\* GET /api/result/{job_id}: job.get("result", {"status": job.get("status")})
ClientFetch ==
    /\ client.pc = "fetch"
    /\ client' = [client EXCEPT
                     !.result = IF job.result # None THEN job.result
                                ELSE <<[status |-> job.status]>>,
                     !.pc = "end"]
    /\ UNCHANGED <<EngineVars, LlmVars, pc, job>>

PollCollections == SeqsUpTo(TxPool, 1) \cup SeqsUpTo(NumericPool, 1)

InitPoll ==
    /\ transactions \in PollCollections
    /\ previous = None
    /\ job = NoJob
    /\ client = NoClient
    /\ llm_response = ""
    /\ sar_text = None
    /\ pc = "queued"
    /\ fields = <<>>
    /\ by_day = <<>>
    /\ patterns = <<>>
    /\ risk_score = 0
    /\ risk_band = ""
    /\ final_recommendation = ""
    /\ case_summary = NoSummary

NextPoll ==
    \/ JobParsing
    \/ JobEnriching
    \/ JobRules
    \/ Next
    \/ JobLlm
    \/ GenerateSar
    \/ JobPdf
    \/ JobAudio
    \/ JobDone
    \/ JobStoreResult
    \/ JobStoreFiles
    \/ JobError
    \/ ClientPoll
    \/ ClientFetch

SpecPoll == InitPoll /\ [][NextPoll]_vars

(***************************************************************************)
(* Properties.                                                             *)
(***************************************************************************)
Returned == pc \in {"band", "recommend", "summary", "done"}

FiredCodes == Range(Codes(patterns))

Fired(code) == code \in FiredCodes

\* C1: the risk_score run_patterns returns is an integer in [1,10], for every
\* collection, the empty one and those on which all ten detectors fire included.
Thm_C1_ScoreInRange ==
    Returned => (risk_score \in Int /\ 1 <= risk_score /\ risk_score <= 10)

Wit_C1_AllTenFire ==
    pc = "done" /\ Len(patterns) = 10 /\ risk_score = 10

\* C2 (as stated): main_driver is null if and only if the patterns list is empty.
Cex_C2_DriverNullIffNoPatterns ==
    pc = "done" => ((case_summary.main_driver = None) <=> (patterns = <<>>))

\* C3: the recommendation is "No SAR" exactly when no fired code is in the
\* high-risk set and score <= 2; otherwise "SAR" when score >= 7 and "Review"
\* when score < 7; nothing else is ever returned.
HighRiskDriverSet ==
    {"STRUCTURING_NEAR_THRESHOLD_CASH", "ATM_STRUCTURING_WITHDRAWALS",
     "INBOUND_SMURFING", "SMURFING_P2P_INBOUND", "P2P_MULTIPLE_TRANSFERS_SAME_DAY",
     "CRYPTO_TO_BANK_FLOW", "RAPID_OUTFLOW", "RAPID_CASH_TO_WIRE",
     "HIGH_RISK_JURISDICTION_WIRE"}

NoSarEligible == FiredCodes \cap HighRiskDriverSet = {} /\ risk_score <= 2

Thm_C3_Recommendation ==
    pc \in {"summary", "done"} =>
        /\ final_recommendation \in {"No SAR", "SAR", "Review"}
        /\ (final_recommendation = "No SAR") <=> NoSarEligible
        /\ (final_recommendation = "SAR") <=> (~NoSarEligible /\ risk_score >= 7)
        /\ (final_recommendation = "Review") <=> (~NoSarEligible /\ risk_score < 7)

Wit_C3_HighRiskLowScore ==
    /\ pc = "done"
    /\ risk_score <= 2
    /\ FiredCodes \cap HighRiskDriverSet # {}
    /\ final_recommendation = "Review"

\* C4: a collection whose only fired pattern is CRYPTO_TO_BANK_FLOW has score 7
\* and recommendation "SAR"; and whenever a high-severity detector fired, the
\* recommendation is not "No SAR".
Thm_C4_CryptoOnlyGating ==
    pc = "done" =>
        /\ (Codes(patterns) = <<"CRYPTO_TO_BANK_FLOW">> =>
                risk_score = 7 /\ final_recommendation = "SAR")
        /\ (FiredCodes \cap HighRiskDriverSet # {} => final_recommendation # "No SAR")

Wit_C4_CryptoOnly ==
    pc = "done" /\ Codes(patterns) = <<"CRYPTO_TO_BANK_FLOW">>

\* C5: the score is the sum of the fixed contributions of the fired codes, each
\* counted once however many hits it recorded, clamped to 1 when <= 0 and to 10
\* when > 10.
Contribution(code) ==
    CASE code = "STRUCTURING_NEAR_THRESHOLD_CASH" -> 3
      [] code = "RAPID_CASH_TO_WIRE" -> 4
      [] code = "INBOUND_SMURFING" -> 4
      [] code = "P2P_MULTIPLE_TRANSFERS_SAME_DAY" -> 3
      [] code = "CRYPTO_TO_BANK_FLOW" -> 7
      [] code = "HIGH_RISK_JURISDICTION_WIRE" -> 7
      [] code = "ATM_STRUCTURING_WITHDRAWALS" -> 3
      [] code = "RAPID_OUTFLOW" -> 4
      [] code = "LAYERING_ACTIVITY" -> 6
      [] code = "FUNNELING_ACTIVITY" -> 5

RECURSIVE SumContributions(_)
SumContributions(S) ==
    IF S = {} THEN 0
    ELSE LET c == CHOOSE x \in S : TRUE
         IN  Contribution(c) + SumContributions(S \ {c})

Thm_C5_ScoreIsClampedSum ==
    LET sum == SumContributions(FiredCodes)
    IN  /\ pc = "clamp" => risk_score = sum
        /\ Returned =>
              risk_score = (IF sum <= 0 THEN 1 ELSE IF sum > 10 THEN 10 ELSE sum)

Wit_C5_ManyHitsOneContribution ==
    /\ pc = "done"
    /\ risk_score = 6
    /\ \E i \in 1..Len(patterns) : Len(patterns[i].matches) >= 2

\* C6: the band is Low for score <= 2, Medium for 3..6, High for >= 7, and the
\* band helper of the test runner gives the band jobs.compute_risk_band stored.
Thm_C6_BandAgreesWithRunner ==
    pc \in {"recommend", "summary", "done"} =>
        /\ (risk_band = "Low") <=> (risk_score <= 2)
        /\ (risk_band = "Medium") <=> (3 <= risk_score /\ risk_score <= 6)
        /\ (risk_band = "High") <=> (risk_score >= 7)
        /\ runner_compute_risk_band(risk_score) = risk_band

Wit_C6_MediumUpperEdge ==
    pc = "done" /\ risk_score = 6 /\ risk_band = "Medium"

\* C7: main_driver is the first code of the severity order funneling > layering >
\* inbound smurfing > crypto-to-bank > rapid outflow > rapid cash-to-wire >
\* structuring > ATM structuring > P2P burst among the fired codes, whatever the
\* order of the patterns list.
SeverityDriver(S) ==
    IF "FUNNELING_ACTIVITY" \in S THEN <<"FUNNELING_ACTIVITY">>
    ELSE IF "LAYERING_ACTIVITY" \in S THEN <<"LAYERING_ACTIVITY">>
    ELSE IF "INBOUND_SMURFING" \in S THEN <<"INBOUND_SMURFING">>
    ELSE IF "CRYPTO_TO_BANK_FLOW" \in S THEN <<"CRYPTO_TO_BANK_FLOW">>
    ELSE IF "RAPID_OUTFLOW" \in S THEN <<"RAPID_OUTFLOW">>
    ELSE IF "RAPID_CASH_TO_WIRE" \in S THEN <<"RAPID_CASH_TO_WIRE">>
    ELSE IF "STRUCTURING_NEAR_THRESHOLD_CASH" \in S THEN <<"STRUCTURING_NEAR_THRESHOLD_CASH">>
    ELSE IF "ATM_STRUCTURING_WITHDRAWALS" \in S THEN <<"ATM_STRUCTURING_WITHDRAWALS">>
    ELSE IF "P2P_MULTIPLE_TRANSFERS_SAME_DAY" \in S THEN <<"P2P_MULTIPLE_TRANSFERS_SAME_DAY">>
    ELSE None

Thm_C7_DriverBySeverity ==
    pc = "done" => case_summary.main_driver = SeverityDriver(FiredCodes)

Wit_C7_DriverNotFirstInList ==
    /\ pc = "done"
    /\ Len(patterns) >= 2
    /\ patterns[1].code = "P2P_MULTIPLE_TRANSFERS_SAME_DAY"
    /\ case_summary.main_driver = <<"FUNNELING_ACTIVITY">>

\* C8: supporting_indicators is the fired codes other than main_driver united
\* with the indicator codes the table lists for main_driver, without duplicates,
\* in ascending lexicographic order.
Thm_C8_SupportingIndicators ==
    pc = "done" =>
        LET sup    == case_summary.supporting_indicators
            driver == case_summary.main_driver
        IN  /\ Range(sup) = (FiredCodes \ Range(driver))
                            \cup Range(SUPPORTING_INDICATORS_BY_DRIVER(driver))
            /\ \A i, j \in 1..Len(sup) : i < j => StrLess(sup[i], sup[j])

Wit_C8_FiredAndInferredOverlap ==
    /\ pc = "done"
    /\ case_summary.main_driver = <<"LAYERING_ACTIVITY">>
    /\ Fired("RAPID_OUTFLOW")
    /\ Len(case_summary.supporting_indicators) = 3

\* C9: main_driver, when not null, is the code of a pattern of the same run.
Thm_C9_DriverAmongPatterns ==
    pc = "done" =>
        (case_summary.main_driver # None => case_summary.main_driver[1] \in FiredCodes)

Wit_C9_DriverPresent ==
    /\ pc = "done"
    /\ Len(patterns) >= 3
    /\ case_summary.main_driver = <<"LAYERING_ACTIVITY">>
    /\ patterns[Len(patterns)].code = "LAYERING_ACTIVITY"

\* C10: STRUCTURING_NEAR_THRESHOLD_CASH fires iff some cash transaction has an
\* amount strictly between 9900 and 10000; a single cash transaction of 9999.99
\* fires it, one of exactly 9900.00 or 10000.00 does not.
OnlyCash(raw) ==
    /\ Len(transactions) = 1
    /\ _get_type(transactions[1]) = "cash"
    /\ transactions[1].amount = raw

ThreeAtmWithdrawals ==
    /\ Len(fields) = 3
    /\ \A i \in 1..3 : fields[i].type = "atm" /\ fields[i].date # None
    /\ { fields[i].amount : i \in 1..3 } = {Dollars(8500), Dollars(9000), Dollars(9500)}
    /\ Cardinality({ fields[i].date : i \in 1..3 }) = 3

Thm_C11_ThreeAtmWithdrawals ==
    (pc = "done" /\ ThreeAtmWithdrawals) =>
        /\ Codes(patterns) = <<"ATM_STRUCTURING_WITHDRAWALS">>
        /\ risk_score = 3
        /\ risk_band = "Medium"
        /\ final_recommendation = "Review"

Wit_C11_ThreeAtmWithdrawals ==
    pc = "done" /\ ThreeAtmWithdrawals /\ Fired("ATM_STRUCTURING_WITHDRAWALS")

\* C12: whenever no detector fires (a single inbound cash transaction of 200 is
\* such a case) the result is patterns = [], score 1, band Low, recommendation
\* "No SAR", main_driver null and supporting_indicators empty.
SingleSmallCash ==
    /\ Len(transactions) = 1
    /\ _get_type(transactions[1]) = "cash"
    /\ _get_amount(transactions[1]) = Dollars(200)
    /\ transactions[1].direction = "inbound"

Thm_C12_NothingFires ==
    /\ (pc = "done" /\ patterns = <<>>) =>
            /\ risk_score = 1
            /\ risk_band = "Low"
            /\ final_recommendation = "No SAR"
            /\ case_summary.recommendation = "No SAR"
            /\ case_summary.risk_band = "Low"
            /\ case_summary.main_driver = None
            /\ case_summary.supporting_indicators = <<>>
    /\ (pc = "done" /\ SingleSmallCash) => patterns = <<>>

Wit_C12_SingleSmallCash ==
    pc = "done" /\ SingleSmallCash /\ patterns = <<>> /\ risk_score = 1

\* C13 (as stated): four p2p transactions of 400 on one day, each with direction
\* inbound and with four pairwise distinct descriptions, make INBOUND_SMURFING
\* fire and give a score of at least 4, whatever the descriptions are.
FourInboundP2P ==
    /\ Len(transactions) = 4
    /\ \A i \in 1..4 :
          /\ _get_type(transactions[i]) = "p2p"
          /\ transactions[i].direction = "inbound"
          /\ _get_amount(transactions[i]) = Dollars(400)
          /\ _get_date(transactions[i]) # None
          /\ _get_date(transactions[i]) = _get_date(transactions[1])
    /\ Cardinality({ _get_details(transactions[i]) : i \in 1..4 }) = 4

Cex_C13_InboundSmurfingByDirection ==
    (pc = "done" /\ FourInboundP2P) =>
        (Fired("INBOUND_SMURFING") /\ risk_score >= 4)

\* C14 (as stated): a transaction whose direction is unknown or outbound is never
\* an inbound credit of INBOUND_SMURFING or FUNNELING_ACTIVITY, never a leg of a
\* RAPID_OUTFLOW pair (an unknown one is never the outbound leg either), and an
\* unknown one never adds to the outbound movement of LAYERING_ACTIVITY.
\* The direction of a record is its explicit field, or else the one inferred
\* from its description.
DirectionOf(i) ==
    IF transactions[i].direction \in {"inbound", "outbound"}
    THEN transactions[i].direction
    ELSE infer_direction_from_details(transactions[i].Details)

MatchesOf(code) ==
    IF \E k \in 1..Len(patterns) : patterns[k].code = code
    THEN patterns[CHOOSE k \in 1..Len(patterns) : patterns[k].code = code].matches
    ELSE <<>>

KnownMovement(idx) ==
    LET Known(i) == DirectionOf(i) # "unknown"
    IN  SumAmounts(fields, SelectSeq(idx, Known))

Cex_C14_DirectionRespected ==
    pc = "done" =>
        /\ \A m \in Range(MatchesOf("INBOUND_SMURFING")) :
              \A i \in Range(m.transactions) : DirectionOf(i) \notin {"unknown", "outbound"}
        /\ \A m \in Range(MatchesOf("FUNNELING_ACTIVITY")) :
              \A i \in Range(m.inbound_transactions) :
                  DirectionOf(i) \notin {"unknown", "outbound"}
        /\ \A m \in Range(MatchesOf("RAPID_OUTFLOW")) :
              /\ DirectionOf(m.inbound) \notin {"unknown", "outbound"}
              /\ DirectionOf(m.outbound) # "unknown"
        /\ \A m \in Range(MatchesOf("LAYERING_ACTIVITY")) :
              m.total_movement <= KnownMovement(m.transactions)

\* C15 (as stated): run_patterns never raises, whatever the records hold.
Cex_C15_NeverRaises ==
    pc # "raised"

\* C16: a transaction whose amount float() rejects has amount 0.0 and is never a
\* structuring hit, never the wire of RAPID_CASH_TO_WIRE, never a related
\* outflow of CRYPTO_TO_BANK_FLOW, never an ATM structuring hit, never a leg of
\* RAPID_OUTFLOW and never an outbound transfer of FUNNELING_ACTIVITY.
Unparseable(i) ==
    ParseFloat(Strip(RemoveCh(RemoveCh(transactions[i].amount, "$"), ","))) = <<>>

UnparseableTxs == { i \in 1..Len(transactions) : Unparseable(i) }

UndatedTxs == { i \in 1..Len(fields) : fields[i].date = None }

DayIndexOK ==
    /\ \A i \in 1..Len(fields) :
          Cardinality({ <<k, j>> \in (1..Len(by_day)) \X (1..Len(fields)) :
                          j <= Len(by_day[k].txs) /\ by_day[k].txs[j] = i })
            = (IF i \in UndatedTxs THEN 0 ELSE 1)
    /\ \A k \in 1..Len(by_day) :
          /\ \A j \in 1..Len(by_day[k].txs) :
                fields[by_day[k].txs[j]].date = <<by_day[k].day>>
          /\ \A j1, j2 \in 1..Len(by_day[k].txs) :
                j1 < j2 => by_day[k].txs[j1] < by_day[k].txs[j2]
    /\ \A k1, k2 \in 1..Len(by_day) : k1 # k2 => by_day[k1].day # by_day[k2].day

\* positions named by the matches of the day-indexed and windowed detectors
WindowedMatchTxs ==
    UNION { Range(m.cash_transactions) \cup Range(m.wire_transactions) :
              m \in Range(MatchesOf("RAPID_CASH_TO_WIRE")) }
    \cup UNION { Range(m.transactions) : m \in Range(MatchesOf("INBOUND_SMURFING")) }
    \cup UNION { Range(m.transactions) :
                  m \in Range(MatchesOf("P2P_MULTIPLE_TRANSFERS_SAME_DAY")) }
    \cup UNION { {m.crypto_deposit} \cup Range(m.related_outflows) :
                  m \in Range(MatchesOf("CRYPTO_TO_BANK_FLOW")) }
    \cup UNION { {m.inbound, m.outbound} : m \in Range(MatchesOf("RAPID_OUTFLOW")) }
    \cup UNION { Range(m.transactions) : m \in Range(MatchesOf("LAYERING_ACTIVITY")) }
    \cup UNION { Range(m.inbound_transactions) \cup Range(m.outbound_transactions) :
                  m \in Range(MatchesOf("FUNNELING_ACTIVITY")) }

AtmCandidates ==
    { i \in 1..Len(fields) :
        /\ fields[i].type = "atm" \/ Contains(fields[i].details, "atm withdrawal")
        /\ Dollars(8000) <= fields[i].amount
        /\ fields[i].amount < Dollars(10000) }

Thm_C17_DayIndex ==
    /\ pc \notin {"group"} => DayIndexOK
    /\ pc = "done" =>
          /\ WindowedMatchTxs \cap UndatedTxs = {}
          /\ \A i \in UndatedTxs :
                /\ (fields[i].type = "cash" /\ Dollars(9900) < fields[i].amount
                        /\ fields[i].amount < Dollars(10000))
                      => i \in Range(MatchesOf("STRUCTURING_NEAR_THRESHOLD_CASH"))
                /\ (fields[i].type = "wire"
                        /\ ContainsAny(fields[i].details, HIGH_RISK_KEYWORDS))
                      => i \in Range(MatchesOf("HIGH_RISK_JURISDICTION_WIRE"))
                /\ (i \in AtmCandidates /\ Cardinality(AtmCandidates) >= 3)
                      => i \in Range(MatchesOf("ATM_STRUCTURING_WITHDRAWALS"))

Wit_C17_UndatedInFullListOnly ==
    /\ pc = "done"
    /\ Range(MatchesOf("STRUCTURING_NEAR_THRESHOLD_CASH")) \cap UndatedTxs # {}
    /\ \E k \in 1..Len(by_day) : Len(by_day[k].txs) >= 2
    /\ Fired("RAPID_CASH_TO_WIRE")

\* C18: the patterns list holds each code at most once and its codes are in the
\* detector declaration order (structuring, cash-to-wire, inbound smurfing, P2P
\* burst, crypto-to-bank, high-risk wire, ATM structuring, rapid outflow,
\* layering, funneling), whatever the order of the input transactions.
DeclarationOrder ==
    <<"STRUCTURING_NEAR_THRESHOLD_CASH", "RAPID_CASH_TO_WIRE", "INBOUND_SMURFING",
      "P2P_MULTIPLE_TRANSFERS_SAME_DAY", "CRYPTO_TO_BANK_FLOW",
      "HIGH_RISK_JURISDICTION_WIRE", "ATM_STRUCTURING_WITHDRAWALS", "RAPID_OUTFLOW",
      "LAYERING_ACTIVITY", "FUNNELING_ACTIVITY">>

DeclarationRank(code) ==
    CHOOSE k \in 1..Len(DeclarationOrder) : DeclarationOrder[k] = code

Thm_C18_DeclarationOrder ==
    /\ \A i \in 1..Len(patterns) : patterns[i].code \in Range(DeclarationOrder)
    /\ \A i, j \in 1..Len(patterns) :
          i < j => DeclarationRank(patterns[i].code) < DeclarationRank(patterns[j].code)

Wit_C18_InputOrderReversed ==
    /\ pc = "done"
    /\ Len(patterns) >= 3
    /\ patterns[1].code = "STRUCTURING_NEAR_THRESHOLD_CASH"
    /\ \E k \in 2..Len(patterns) :
          /\ patterns[k].code = "HIGH_RISK_JURISDICTION_WIRE"
          /\ patterns[k].matches[1] < patterns[1].matches[1]

\* C19 (as stated): running the engine twice on the same collection gives the
\* same result: same patterns in the same order with the same matches, same
\* score, band, main_driver, supporting_indicators and recommendation.
Cex_C19_Idempotent ==
    (pc = "done" /\ previous # None) => Result = previous[1]

\* C20 (as stated): once a client has seen status "done" from /api/status, its
\* following /api/result call returns the complete result (patterns,
\* risk_score, risk_band, final_recommendation), under every interleaving of
\* the worker with the client's requests.
CompleteResult(r) ==
    {"patterns", "risk_score", "risk_band", "final_recommendation"}
        \subseteq DOMAIN r

Cex_C20_DoneImpliesResult ==
    (client.pc = "end" /\ client.status = "done") =>
        (client.result # None /\ CompleteResult(client.result[1]))

(***************************************************************************)
(* C21.  A failure of the narrative call never ends the job in status      *)
(* "error": whatever requests.post brought back (no key, timeout, HTTP     *)
(* error status, connection error, a 200 body that is not JSON or lacks    *)
(* choices / message / content), generate_sar returned a narrative, so no  *)
(* job is in status "error" with the call made and no narrative.           *)
(***************************************************************************)
Cex_C21_NarrativeFailureNeverEndsJob ==
    ~ (llm_response # "" /\ sar_text = None /\ job.status = "error")

(***************************************************************************)
(* C22.  CRYPTO_TO_BANK_FLOW fires if and only if there is a dated         *)
(* transaction whose description holds a crypto-exchange keyword and a     *)
(* dated wire, p2p or ach transaction of amount >= 5000 dated at most 2    *)
(* calendar days before or after it: a transfer exactly 2 days away        *)
(* counts, one 3 days away does not.                                       *)
(***************************************************************************)
\* the crypto section has just run, or the run is complete
CryptoSectionDone == pc \in {"high_risk", "done"}

\* the calendar distances between a dated crypto-keyword record and a dated
\* transfer of at least 5000
CryptoTransferGaps ==
    LET keyword   == { c \in 1..Len(fields) :
                         /\ fields[c].date # None
                         /\ \E k \in CRYPTO_KEYWORDS : Contains(fields[c].details, k) }
        transfers == { t \in 1..Len(fields) :
                         /\ fields[t].date # None
                         /\ fields[t].type \in {"wire", "p2p", "ach"}
                         /\ fields[t].amount >= Dollars(5000) }
    IN  { Abs(DayOf(fields[t]) - DayOf(fields[c])) : <<c, t>> \in keyword \X transfers }

RapidSectionDone ==
    pc \in {"layering", "funneling", "clamp", "band", "recommend", "summary",
            "done"}

\* an inbound and an outbound position as the claim describes them
RapidPair(i, o) ==
    /\ fields[i].date # None
    /\ fields[o].date # None
    /\ fields[i].type \in {"cash", "ach", "check"}
    /\ fields[i].amount >= Dollars(5000)
    /\ fields[o].type \in {"wire", "ach", "p2p"}
    /\ fields[o].amount >= Dollars(5000)
    /\ Abs(DayOf(fields[o]) - DayOf(fields[i])) <= 1
    /\ 100 * fields[o].amount >= 80 * fields[i].amount

Cex_C23_RapidOutflowIff ==
    RapidSectionDone =>
        (Fired("RAPID_OUTFLOW") <=>
            \E i, o \in 1..Len(fields) : RapidPair(i, o))

(***************************************************************************)
(* C24.  LAYERING_ACTIVITY fires if and only if some dated transaction     *)
(* that is not salary-sized anchors a forward 7-day window that holds at   *)
(* least 4 dated transactions over at least 3 distinct channels whose      *)
(* outbound-or-crypto amounts sum to at least 6000; transactions dated     *)
(* before the anchor's date or more than 7 days after it never count      *)
(* toward that anchor's window, and every qualifying anchor adds one entry *)
(* to the pattern's matches.                                               *)
(***************************************************************************)
LayeringSectionDone ==
    pc \in {"funneling", "clamp", "band", "recommend", "summary", "done"}

\* the dated positions from the anchor's date to 7 days after it
ForwardWindow(a) ==
    { i \in 1..Len(fields) :
        /\ fields[i].date # None
        /\ DayOf(fields[i]) >= DayOf(fields[a])
        /\ DayOf(fields[i]) <= DayOf(fields[a]) + 7 }

SalarySized(a) ==
    /\ fields[a].amount <= Dollars(5000)
    /\ \E k \in {"salary", "payroll"} : Contains(fields[a].details, k)

OutboundOrCrypto(i) ==
    \/ \E k \in {"crypto", "exchange", "binance", "coinbase", "kraken"} :
          Contains(fields[i].details, k)
    \/ infer_direction_from_details(fields[i].details) = "outbound"

RECURSIVE SumOver(_)
SumOver(S) ==
    IF S = {} THEN 0
    ELSE LET i == CHOOSE i \in S : TRUE
         IN  fields[i].amount + SumOver(S \ {i})

QualifyingAnchor(a) ==
    /\ fields[a].date # None
    /\ ~SalarySized(a)
    /\ Cardinality(ForwardWindow(a)) >= 4
    /\ Cardinality({ fields[i].type : i \in ForwardWindow(a) }) >= 3
    /\ SumOver({ i \in ForwardWindow(a) : OutboundOrCrypto(i) }) >= Dollars(6000)

Cex_C24_LayeringIff ==
    LayeringSectionDone =>
        LET anchors == { a \in 1..Len(fields) : QualifyingAnchor(a) }
            matches == MatchesOf("LAYERING_ACTIVITY")
        IN  /\ Fired("LAYERING_ACTIVITY") <=> anchors # {}
            /\ Len(matches) = Cardinality(anchors)
            /\ \A j \in 1..Len(matches) :
                  \E a \in anchors :
                     Range(matches[j].transactions) = ForwardWindow(a)

(***************************************************************************)
(* C25.  FUNNELING_ACTIVITY fires if and only if some dated transaction    *)
(* anchors a forward 7-day window that holds at least 4 inbound credits    *)
(* from at least 4 distinct senders totalling at least 10000, and the      *)
(* outbound transfers of that window to one single destination sum to at   *)
(* least 80% of that inbound total.                                        *)
(***************************************************************************)
FunnelingSectionDone ==
    pc \in {"clamp", "band", "recommend", "summary", "done"}

\* an inbound credit: a p2p, ach or wire record whose description says
\* incoming, from or credit; its description stands for the sender
InboundCredits(a) ==
    { i \in ForwardWindow(a) :
        /\ fields[i].type \in {"p2p", "ach", "wire"}
        /\ \E k \in {"incoming", "from", "credit"} : Contains(fields[i].details, k) }

\* an outbound transfer: a wire or p2p record of positive amount that is not
\* one of the credits; its description stands for the destination
OutboundTransfers(a) ==
    { i \in ForwardWindow(a) \ InboundCredits(a) :
        fields[i].type \in {"wire", "p2p"} /\ fields[i].amount > 0 }

Consolidates(a) ==
    /\ fields[a].date # None
    /\ Cardinality(InboundCredits(a)) >= 4
    /\ Cardinality({ fields[i].details : i \in InboundCredits(a) }) >= 4
    /\ SumOver(InboundCredits(a)) >= Dollars(10000)
    /\ \E o \in OutboundTransfers(a) :
          100 * SumOver({ i \in OutboundTransfers(a) :
                            fields[i].details = fields[o].details })
             >= 80 * SumOver(InboundCredits(a))

Cex_C25_FunnelingIff ==
    FunnelingSectionDone =>
        (Fired("FUNNELING_ACTIVITY") <=> \E a \in 1..Len(fields) : Consolidates(a))

(***************************************************************************)
(* C26.  For every result run_patterns can produce, the recommendation is  *)
(* "No SAR" if and only if no pattern fired: every fired pattern adds at   *)
(* least 3, so the score is never 2, the band is Low only when patterns is *)
(* empty, and a run in which only LAYERING_ACTIVITY or only                *)
(* FUNNELING_ACTIVITY fired (codes outside the high-risk set) still gets   *)
(* "Review", never "No SAR".                                               *)
(***************************************************************************)
OutsideHighRisk == {"LAYERING_ACTIVITY", "FUNNELING_ACTIVITY"}

Thm_C26_NoSarIffNoPattern ==
    pc = "done" =>
        /\ (final_recommendation = "No SAR") <=> (patterns = <<>>)
        /\ patterns # <<>> => risk_score >= 3
        /\ risk_score # 2
        /\ risk_band = "Low" => patterns = <<>>
        /\ (FiredCodes # {} /\ FiredCodes \subseteq OutsideHighRisk) =>
              final_recommendation = "Review"

\* only the layering detector fired: score 6, band Medium
Wit_C26_LayeringAlone ==
    /\ pc = "done"
    /\ FiredCodes = {"LAYERING_ACTIVITY"}
    /\ risk_score = 6
    /\ final_recommendation = "Review"

(***************************************************************************)
(* C27.  Every hit recorded by RAPID_OUTFLOW pairs two different           *)
(* transaction records: the record taken as the inbound leg is never also  *)
(* the outbound leg of the same hit, so a collection holding a single      *)
(* transaction never fires RAPID_OUTFLOW.                                  *)
(***************************************************************************)
Cex_C27_RapidLegsDiffer ==
    RapidSectionDone =>
        LET hits == MatchesOf("RAPID_OUTFLOW")
        IN  /\ \A j \in 1..Len(hits) : hits[j].inbound # hits[j].outbound
            /\ Len(transactions) = 1 => ~Fired("RAPID_OUTFLOW")

(***************************************************************************)
(* C28.  In every FUNNELING_ACTIVITY window the inbound credits and the    *)
(* outbound transfers are disjoint sets of records: a transaction counted  *)
(* among the inbound credits never also adds its amount to an outbound     *)
(* destination total, so a window holding only inbound credits never       *)
(* fires FUNNELING_ACTIVITY.                                               *)
(***************************************************************************)
Cex_C28_FunnelingLegsDisjoint ==
    FunnelingSectionDone =>
        LET hits == MatchesOf("FUNNELING_ACTIVITY")
        IN  \A j \in 1..Len(hits) :
               /\ Range(hits[j].inbound_transactions)
                     \cap Range(hits[j].outbound_transactions) = {}
               /\ Range(hits[j].outbound_transactions)
                     \ Range(hits[j].inbound_transactions) # {}

(***************************************************************************)
(* C29.  The status of a job only moves forward through queued, parsing,   *)
(* enriching, rules, llm, pdf, audio, done, skipping no stage, or jumps to *)
(* error from any stage after queued; done and error are final, no later   *)
(* step changes a status that has reached one of them, and a job with      *)
(* status error has no result, pdf or audio entry.                         *)
(***************************************************************************)
Stages ==
    <<"queued", "parsing", "enriching", "rules", "llm", "pdf", "audio", "done">>

NextStage(a, b) == \E k \in 1..(Len(Stages) - 1) : a = Stages[k] /\ b = Stages[k + 1]

StatusStep ==
    job'.status # job.status =>
        \/ NextStage(job.status, job'.status)
        \/ /\ job'.status = "error"
           /\ job.status \in Range(Stages) \ {"queued", "done"}

ErrorHasNoEntries ==
    job.status = "error" =>
        (job.result = None /\ job.pdf = None /\ job.audio = None)

Thm_C29_StatusForward ==
    [][StatusStep]_vars /\ []ErrorHasNoEntries

\* the job failed in the pdf or audio stage, after the narrative was written
Wit_C29_ErrorAfterNarrative ==
    /\ job.status = "error"
    /\ sar_text # None
    /\ client.status \in {"llm", "pdf", "audio"}

(***************************************************************************)
(* C30.  When the narrative comes from the deterministic fallback          *)
(* template, its final sentence agrees with the engine's recommendation:   *)
(* it says a Suspicious Activity Report is recommended exactly when        *)
(* final_recommendation is "SAR", and says it is not recommended exactly   *)
(* when final_recommendation is "No SAR" or "Review".                      *)
(***************************************************************************)
Cex_C30_FallbackAgreesWithRecommendation ==
    (sar_text # None /\ sar_text[1].source = "fallback") =>
        /\ (sar_text[1].final = RECOMMENDED) <=> (final_recommendation = "SAR")
        /\ (sar_text[1].final = NOT_RECOMMENDED) <=>
              (final_recommendation \in {"No SAR", "Review"})

====
